---- MODULE Spec2Model ----
(***************************************************************************)
(* Ensemble sales-forecasting engine of intuitCraft: trainer pipeline,     *)
(* model store (joblib bundle), ensemble combiner and the forecast service *)
(* that serves predictions from the loaded bundle.                         *)
(*                                                                         *)
(* Numbers: sales and sub-model outputs are integers; a blended forecast   *)
(* is kept in tenths (weights 0.6/0.4 are 6 and 4 tenths) and an entry of  *)
(* a forecast in thousandths (the 15% margin is exact there).              *)
(***************************************************************************)
EXTENDS Integers, Sequences, FiniteSets, TLC

\* ------------------------------------------------------------------ bounds
MaxHorizon == 7

\* --------------------------------------------------------- program constants
SeasonalPeriod == 7
HoldoutDays == 30
XgbWeight == 6
HwWeight == 4
MarginPct == 15
FeatureCount == 25
StaleFeatureCount == 17

RandomState == 42
MinR2 == 850
MaxMaePct == 5
MinSeasonalPoints == 2 * SeasonalPeriod
MinSeriesPoints == 2
WeightOne == XgbWeight + HwWeight

Categories == {"A", "B"}
RequestCategories == Categories \cup {"Z"}
HistoryLengths == {0, 10, 43, 44}
Runs == {"r1", "r2"}
Requests == {"q1", "q2"}
Stages == <<"Uninitialized", "DataReady", "FeaturesBuilt", "ModelsFit",
            "Evaluated", "Serialized">>
Location == "ensemble_model.pkl"

Max(a, b) == IF a >= b THEN a ELSE b
Min(a, b) == IF a <= b THEN a ELSE b
Abs(a) == IF a >= 0 THEN a ELSE 0 - a

\* ------------------------------------------------------------ observations
\* Weekend effect of the synthetic sales data.
Weekly(d) == IF d % 7 \in {6, 0} THEN 3 ELSE 0

\* Synthetic daily sales of category c on day d (day 1 is the first day).
\* A has a rising base, B a falling one; sales are never negative.
Sales(c, d) ==
    IF c = "A" THEN 20 + d + Weekly(d)
               ELSE Max(100 - 7 * d, 0) + Weekly(d)

\* Categories present in an observation table obs (category -> days).
KnownCategories(obs) == {c \in Categories : obs[c] > 0}

\* A split that keeps the whole series in the train window.
TrainLen_whole(n, k) == n

\* Length of the train window: all but the trailing k days.
TrainLen(n, k) == IF n > k THEN n - k ELSE 0

RECURSIVE SumSales(_, _, _)
SumSales(c, from, to) ==
    IF from > to THEN 0 ELSE Sales(c, to) + SumSales(c, from, to - 1)

\* ------------------------------------------------------------ sub-models
\* Holt-Winters, additive trend and additive weekly season, fitted on the
\* first tl days of category c: level, trend and the 7 seasonal offsets.
DayOfPhase(tl, p) == CHOOSE d \in (tl - SeasonalPeriod + 1)..tl : d % SeasonalPeriod = p

FitSeasonal(c, tl) ==
    LET level == Sales(c, tl)
        trend == (Sales(c, tl) - Sales(c, tl - SeasonalPeriod)) \div SeasonalPeriod
    IN  [level |-> level,
         trend |-> trend,
         seasonal |-> [p \in 0..(SeasonalPeriod - 1) |->
                         Sales(c, DayOfPhase(tl, p))
                           - (level + (DayOfPhase(tl, p) - tl) * trend)],
         last |-> tl]

\* get_hw_forecast(category, steps): the value `steps` days after the fit.
HwForecast(m, steps) ==
    m.level + steps * m.trend + m.seasonal[(m.last + steps) % SeasonalPeriod]

\* Trailing mean of the last (up to 7) train days of c.
TrailingMean(c, tl) ==
    SumSales(c, Max(tl - SeasonalPeriod + 1, 1), tl) \div Min(tl, SeasonalPeriod)

\* Categories whose train series is long enough to yield feature rows.
FeatureCategories(obs, k) ==
    {c \in KnownCategories(obs) : TrainLen(obs[c], k) >= MinSeriesPoints}

RECURSIVE SumMeans(_, _, _)
SumMeans(S, obs, k) ==
    IF S = {} THEN 0
    ELSE LET c == CHOOSE x \in S : TRUE
         IN  TrailingMean(c, TrainLen(obs[c], k)) + SumMeans(S \ {c}, obs, k)

GlobalMean(obs, k) ==
    IF FeatureCategories(obs, k) = {} THEN 0
    ELSE SumMeans(FeatureCategories(obs, k), obs, k)
           \div Cardinality(FeatureCategories(obs, k))

\* Gradient-boosted regressor fitted jointly on the rows of all categories:
\* per category code the level it learned; a category without rows gets the
\* level of the whole table.
FitInteraction(obs, k) ==
    [c \in KnownCategories(obs) |->
        IF c \in FeatureCategories(obs, k)
        THEN TrailingMean(c, TrainLen(obs[c], k))
        ELSE GlobalMean(obs, k)]

XgbPredict(xgb, c, steps) ==
    (IF c \in DOMAIN xgb THEN xgb[c] ELSE 0) + Weekly(steps)

\* ------------------------------------------------------- ensemble combiner
\* ensemble_predict without the floor at zero.
ensemble_predict_unfloored(xgb_pred, hw_pred) ==
    XgbWeight * xgb_pred + HwWeight * hw_pred

\* ensemble_predict: fixed weights 0.6 / 0.4, floored at zero (in tenths).
ensemble_predict(xgb_pred, hw_pred) ==
    Max(XgbWeight * xgb_pred + HwWeight * hw_pred, 0)

\* Fallback for a category without a seasonal model: XGBoost alone.
fallback_predict(xgb_pred) == Max(WeightOne * xgb_pred, 0)

\* calculate_confidence: 15% margin around the prediction (in thousandths
\* for a prediction given in tenths).
calculate_confidence(prediction) ==
    LET margin == prediction * MarginPct
    IN  [lower |-> Max(prediction * 100 - margin, 0),
         upper |-> prediction * 100 + margin]

\* Bounds taken around the blend before it is floored.
CombineEntry_rawBounds(xgb_pred, hw_pred) ==
    LET raw == ensemble_predict_unfloored(xgb_pred, hw_pred)
        ci  == calculate_confidence(raw)
    IN  [predicted_sales |-> ensemble_predict(xgb_pred, hw_pred) * 100,
         confidence_lower |-> ci.lower, confidence_upper |-> ci.upper]

\* The point forecast of two sub-model outputs with its bounds, as predict
\* and the post-processing of the request build them (in thousandths).
CombineEntry(xgb_pred, hw_pred) ==
    LET p  == ensemble_predict(xgb_pred, hw_pred)
        ci == calculate_confidence(p)
    IN  [predicted_sales |-> p * 100,
         confidence_lower |-> ci.lower, confidence_upper |-> ci.upper]

NoEntry == [predicted_sales |-> -1, confidence_lower |-> -1,
            confidence_upper |-> -1]
NoBlend == [xgb_pred |-> 0, hw_pred |-> 0, out |-> NoEntry]

\* --------------------------------------------------------------- artifact
NoModels == [c \in {} |-> 0]
DefaultWeights == [xgb |-> XgbWeight, hw |-> HwWeight]
NoMape == [kind |-> "finite", value |-> 0]
NoMetrics == [mae |-> 0, rows |-> 0, mse |-> 0, r2 |-> 0, mae_pct |-> 0,
              mape |-> NoMape]

\* A freshly constructed EnsembleForecastModel (cls()).
NewModel ==
    [xgb_model |-> NoModels, hw_models |-> NoModels,
     feature_columns |-> FeatureCount, scaler |-> 0,
     version |-> "3.0.0", weights |-> DefaultWeights,
     fallback |-> {}, warnings |-> {}, metrics |-> NoMetrics]

\* save: the joblib bundle holds exactly these four entries.
save(model) ==
    [xgb_model |-> model.xgb_model, hw_models |-> model.hw_models,
     feature_columns |-> model.feature_columns, scaler |-> model.scaler]

\* load that forgets to restore the Holt-Winters models.
load_withoutHw(data) ==
    [NewModel EXCEPT !.xgb_model = data.xgb_model,
                     !.feature_columns = data.feature_columns,
                     !.scaler = data.scaler]

\* load: a new model object whose four entries come from the bundle.
load(data) ==
    [NewModel EXCEPT !.xgb_model = data.xgb_model,
                     !.hw_models = data.hw_models,
                     !.feature_columns = data.feature_columns,
                     !.scaler = data.scaler]

\* A store that accepts any bundle.
SchemaMatches_any(data) == data = data

\* The store rejects a bundle whose feature schema is not the engine's.
SchemaMatches(data) == data.feature_columns = FeatureCount

\* A bundle written by the 17-feature pipeline (model version 2.0.0).
StaleBundle ==
    [xgb_model |-> [c \in Categories |-> 20], hw_models |-> NoModels,
     feature_columns |-> StaleFeatureCount, scaler |-> 20]

EmptyBundle == save(NewModel)

\* ---------------------------------------------------------------- predict
\* predict that accepts any category.
CategoryKnown_any(model, c) == c = c

\* A category is known when training assigned it a code.
CategoryKnown(model, c) == c \in DOMAIN model.xgb_model

\* Point forecast (tenths) of the model for category c, `steps` days ahead.
PointForecast(model, c, steps) ==
    IF c \in DOMAIN model.hw_models
    THEN ensemble_predict(XgbPredict(model.xgb_model, c, steps),
                          HwForecast(model.hw_models[c], steps))
    ELSE fallback_predict(XgbPredict(model.xgb_model, c, steps))

\* One entry of the forecast sequence.
ForecastEntry(model, c, steps) ==
    LET p == PointForecast(model, c, steps)
        ci == calculate_confidence(p)
    IN  [day |-> steps, predicted_sales |-> p * 100,
         confidence_lower |-> ci.lower, confidence_upper |-> ci.upper]

\* The whole sequence predict yields for a horizon.
PredictSeq(model, c, horizon) ==
    [i \in 1..horizon |-> ForecastEntry(model, c, i)]

\* ------------------------------------------------------- trainer, by stage
CategoryOrder == <<"A", "B">>

\* First category, in table order, of a non-empty set of categories.
FirstCategory(S) ==
    CategoryOrder[CHOOSE i \in 1..Len(CategoryOrder) :
                    /\ CategoryOrder[i] \in S
                    /\ \A j \in 1..(i - 1) : CategoryOrder[j] \notin S]

StageIndex(s) == CHOOSE i \in 1..Len(Stages) : Stages[i] = s
NextStage(s) == Stages[Min(StageIndex(s) + 1, Len(Stages))]

\* train that accepts any pair of weights.
ValidWeights_unchecked(cfg) == cfg = cfg

\* The configured ensemble weights must sum to 1.
ValidWeights(cfg) == cfg.xgb + cfg.hw = WeightOne

Configs ==
    {[xgb |-> XgbWeight, hw |-> HwWeight, holdout |-> HoldoutDays],
     [xgb |-> 7, hw |-> 3, holdout |-> HoldoutDays],
     [xgb |-> XgbWeight, hw |-> 5, holdout |-> HoldoutDays]}

NoConfig == [xgb |-> 0, hw |-> 0, holdout |-> 0]

\* Feature building: the schema, the scaler and one InvalidSeries warning
\* per category whose train series is too short to give feature rows.
BuiltFeatures(m, obs, cfg) ==
    [m EXCEPT !.feature_columns = FeatureCount,
              !.scaler = GlobalMean(obs, cfg.holdout),
              !.weights = [xgb |-> cfg.xgb, hw |-> cfg.hw],
              !.warnings = @ \cup
                  {<<c, "InvalidSeries">> :
                     c \in KnownCategories(obs) \ FeatureCategories(obs, cfg.holdout)}]

\* Row and column subsampling of the boosted trees: the rows drawn by the
\* generator seeded with seed move the level the regressor learns.
SubsampleShift(seed) == seed % 2

FittedXgbSeeded(m, obs, cfg, seed) ==
    [m EXCEPT !.xgb_model =
        [c \in DOMAIN FitInteraction(obs, cfg.holdout) |->
            FitInteraction(obs, cfg.holdout)[c] + SubsampleShift(seed)]]

FittedXgb(m, obs, cfg) == FittedXgbSeeded(m, obs, cfg, RandomState)

\* One turn of the per-category Holt-Winters loop.
FittedHw(m, c, obs, cfg) ==
    IF TrainLen(obs[c], cfg.holdout) >= MinSeasonalPoints
    THEN [m EXCEPT !.hw_models =
                     (c :> FitSeasonal(c, TrainLen(obs[c], cfg.holdout))) @@ @]
    ELSE [m EXCEPT !.fallback = @ \cup {c},
                   !.warnings = @ \cup {<<c, "InsufficientHistory">>}]

RECURSIVE FittedAllHw(_, _, _, _)
FittedAllHw(m, S, obs, cfg) ==
    IF S = {} THEN m
    ELSE FittedAllHw(FittedHw(m, FirstCategory(S), obs, cfg),
                     S \ {FirstCategory(S)}, obs, cfg)

\* Holdout evaluation: absolute error of the forecast on the trailing days.
RECURSIVE SumAbsError(_, _, _, _, _)
SumAbsError(m, c, tl, from, to) ==
    IF from > to THEN 0
    ELSE Abs(WeightOne * Sales(c, to) - PointForecast(m, c, to - tl))
           + SumAbsError(m, c, tl, from, to - 1)

RECURSIVE HoldoutError(_, _, _, _)
HoldoutError(m, S, obs, cfg) ==
    IF S = {} THEN 0
    ELSE LET c == FirstCategory(S)
             tl == TrainLen(obs[c], cfg.holdout)
         IN  SumAbsError(m, c, tl, tl + 1, obs[c])
               + HoldoutError(m, S \ {c}, obs, cfg)

RECURSIVE HoldoutRows(_, _, _)
HoldoutRows(S, obs, cfg) ==
    IF S = {} THEN 0
    ELSE LET c == FirstCategory(S)
         IN  (obs[c] - TrainLen(obs[c], cfg.holdout))
               + HoldoutRows(S \ {c}, obs, cfg)

RECURSIVE SumSqError(_, _, _, _, _)
SumSqError(m, c, tl, from, to) ==
    IF from > to THEN 0
    ELSE LET e == WeightOne * Sales(c, to) - PointForecast(m, c, to - tl)
         IN  e * e + SumSqError(m, c, tl, from, to - 1)

RECURSIVE HoldoutSqError(_, _, _, _)
HoldoutSqError(m, S, obs, cfg) ==
    IF S = {} THEN 0
    ELSE LET c == FirstCategory(S)
             tl == TrainLen(obs[c], cfg.holdout)
         IN  SumSqError(m, c, tl, tl + 1, obs[c])
               + HoldoutSqError(m, S \ {c}, obs, cfg)

RECURSIVE SumSqSales(_, _, _)
SumSqSales(c, from, to) ==
    IF from > to THEN 0
    ELSE Sales(c, to) * Sales(c, to) + SumSqSales(c, from, to - 1)

\* Sum of the actual sales (sq FALSE) or of their squares (sq TRUE) over
\* the holdout rows.
RECURSIVE HoldoutActual(_, _, _, _)
HoldoutActual(S, obs, cfg, sq) ==
    IF S = {} THEN 0
    ELSE LET c == FirstCategory(S)
             tl == TrainLen(obs[c], cfg.holdout)
         IN  (IF sq THEN SumSqSales(c, tl + 1, obs[c])
                    ELSE SumSales(c, tl + 1, obs[c]))
               + HoldoutActual(S \ {c}, obs, cfg, sq)

\* r2_score in thousandths: 1 - SS_res / SS_tot (0 for a constant actual);
\* ssres is in squared tenths, sy and syy in sales units.
r2_score(ssres, sy, syy, n) ==
    LET tot == syy - (sy * sy) \div n
    IN  IF tot = 0 THEN 0
        ELSE 1000 - (1000 * (ssres \div (WeightOne * WeightOne))) \div tot

\* The holdout rows (category, day) of the table.
HoldoutRowSet(S, obs, cfg) ==
    UNION {{c} \X ((TrainLen(obs[c], cfg.holdout) + 1)..obs[c]) : c \in S}

\* |y_true - y_pred| of one holdout row, in tenths.
RowError(m, obs, cfg, cd) ==
    Abs(WeightOne * Sales(cd[1], cd[2])
          - PointForecast(m, cd[1], cd[2] - TrainLen(obs[cd[1]], cfg.holdout)))

\* What |y_true - y_pred| / y_true is for one row: a number, inf (x / 0)
\* or nan (0 / 0).
RowKind(m, obs, cfg, cd) ==
    IF Sales(cd[1], cd[2]) # 0 THEN "finite"
    ELSE IF RowError(m, obs, cfg, cd) = 0 THEN "nan" ELSE "inf"

\* Sum of |y_true - y_pred| / y_true over the holdout days of c, in
\* thousandths.
RECURSIVE SumPctError(_, _, _, _, _)
SumPctError(m, c, tl, from, to) ==
    IF from > to THEN 0
    ELSE (100 * Abs(WeightOne * Sales(c, to) - PointForecast(m, c, to - tl)))
            \div Sales(c, to)
           + SumPctError(m, c, tl, from, to - 1)

RECURSIVE HoldoutPctError(_, _, _, _)
HoldoutPctError(m, S, obs, cfg) ==
    IF S = {} THEN 0
    ELSE LET c == FirstCategory(S)
             tl == TrainLen(obs[c], cfg.holdout)
         IN  SumPctError(m, c, tl, tl + 1, obs[c])
               + HoldoutPctError(m, S \ {c}, obs, cfg)

\* mape: np.mean(np.abs((y_true - y_pred) / y_true)) * 100, in tenths of a
\* percent. The division has no guard: a row with y_true = 0 gives nan when
\* its error is 0 too and inf otherwise, and the mean is then nan or inf.
mape(m, obs, cfg) ==
    LET S     == KnownCategories(obs)
        kinds == {RowKind(m, obs, cfg, cd) : cd \in HoldoutRowSet(S, obs, cfg)}
    IN  IF "nan" \in kinds THEN [kind |-> "nan", value |-> 0]
        ELSE IF "inf" \in kinds THEN [kind |-> "inf", value |-> 0]
        ELSE [kind |-> "finite",
              value |-> HoldoutPctError(m, S, obs, cfg)
                          \div HoldoutRows(S, obs, cfg)]

evaluate_model(m, obs, cfg) ==
    LET S     == KnownCategories(obs)
        rows  == HoldoutRows(S, obs, cfg)
        abs   == HoldoutError(m, S, obs, cfg)
        ssres == HoldoutSqError(m, S, obs, cfg)
        sy    == HoldoutActual(S, obs, cfg, FALSE)
        syy   == HoldoutActual(S, obs, cfg, TRUE)
    IN  [m EXCEPT !.metrics =
           [mae |-> abs \div rows,
            rows |-> rows,
            mse |-> ssres \div rows,
            r2 |-> r2_score(ssres, sy, syy, rows),
            mae_pct |-> IF sy = 0 THEN 0 ELSE (100 * abs) \div (WeightOne * sy),
            mape |-> mape(m, obs, cfg)]]

\* deploy_model: the quality gate on the evaluation metrics.
MeetsThreshold(metrics) == metrics.mae_pct < MaxMaePct /\ metrics.r2 > MinR2

\* The model a complete run builds from obs under cfg.
TrainedModel(obs, cfg) ==
    evaluate_model(
        FittedAllHw(FittedXgb(BuiltFeatures(NewModel, obs, cfg), obs, cfg),
                    KnownCategories(obs), obs, cfg),
        obs, cfg)

\* -------------------------------------------------------- feature builder
\* A daily series of one category: the synthetic series over days 1..days,
\* with the observation of day bump (0: none) raised by delta.
SeriesValue(s, d) == Sales(s.category, d) + (IF d = s.bump THEN s.delta ELSE 0)

RECURSIVE SumValues(_, _, _)
SumValues(s, from, to) ==
    IF from > to THEN 0 ELSE SeriesValue(s, to) + SumValues(s, from, to - 1)

RECURSIVE SumSquares(_, _, _)
SumSquares(s, from, to) ==
    IF from > to THEN 0
    ELSE SeriesValue(s, to) * SeriesValue(s, to) + SumSquares(s, from, to - 1)

DayOfWeek(d) == (d - 1) % 7
IsWeekend(d) == IF DayOfWeek(d) \in {5, 6} THEN 1 ELSE 0
CategoryCode(c) == CHOOSE i \in 0..(Len(CategoryOrder) - 1) : CategoryOrder[i + 1] = c

\* Sales value k days before day T; an offset before the start of the
\* series takes the earliest value.
Lag(s, T, k) == SeriesValue(s, Max(T - k, 1))

\* First day of the trailing window of w days.
RollingStart(s, T, w) == Max(T - w, 1)

\* A window centred on the target day.
RollingEnd_centered(s, T, w) == Min(T + w \div 2, s.days)

\* Last day of the trailing window: the day before the target day (the
\* first day of the series has no day before it and takes the earliest value).
RollingEnd(s, T, w) == Max(T - 1, 1)

RollingCount(s, T, w) == RollingEnd(s, T, w) - RollingStart(s, T, w) + 1

RollingMean(s, T, w) ==
    SumValues(s, RollingStart(s, T, w), RollingEnd(s, T, w)) \div RollingCount(s, T, w)

\* Variance of the window (the standard deviation is its square root).
RollingVar(s, T, w) ==
    LET n  == RollingCount(s, T, w)
        sm == SumValues(s, RollingStart(s, T, w), RollingEnd(s, T, w))
        sq == SumSquares(s, RollingStart(s, T, w), RollingEnd(s, T, w))
    IN  (n * sq - sm * sm) \div (n * n)

\* Ratio in thousandths; 1.0 when the denominator is 0.
Ratio(a, b) == IF b = 0 THEN 1000 ELSE (1000 * a) \div b

\* The feature vector of day T of series s (calendar fields other than the
\* weekday, and the sine/cosine encodings, are functions of the date alone).
FeatureVector(s, T) ==
    [day_of_week      |-> DayOfWeek(T),
     is_weekend       |-> IsWeekend(T),
     trend            |-> T - 1,
     lag_7            |-> Lag(s, T, 7),
     lag_14           |-> Lag(s, T, 14),
     lag_30           |-> Lag(s, T, 30),
     rolling_mean_7   |-> RollingMean(s, T, 7),
     rolling_mean_30  |-> RollingMean(s, T, 30),
     rolling_var_7    |-> RollingVar(s, T, 7),
     rolling_var_30   |-> RollingVar(s, T, 30),
     momentum_7_30    |-> Ratio(RollingMean(s, T, 7), RollingMean(s, T, 30)),
     momentum_7_14    |-> Ratio(RollingMean(s, T, 7), RollingMean(s, T, 14)),
     weekend_category |-> IsWeekend(T) * CategoryCode(s.category),
     volatility_ratio |-> Ratio(RollingVar(s, T, 7), RollingVar(s, T, 30)),
     category_encoded |-> CategoryCode(s.category)]

SeriesIds == {"s1", "s2"}
NoSeries == [category |-> "A", days |-> 0, bump |-> 0, delta |-> 0]
NoFeatures == [day |-> 0]

\* -------------------------------------------------------- dashboard page
Periods == {"week", "month", "year"}
TrendDays == 60
ProductLimit == 8
Panels == {"chart", "products"}
SelectKeys == {"Enter", " "}
Keys == SelectKeys \cup {"Tab", "Escape"}

\* Response of GET /forecast/categories?time_period=p: one CategoryForecast
\* per category; fetched_for stands for its totals, which the backend
\* computes for the requested period.
Forecasts(p) ==
    [i \in 1..Len(CategoryOrder) |->
        [category |-> CategoryOrder[i], fetched_for |-> p]]

\* ForecastService calls: what is sent, the panel instance that sent it (0:
\* the Dashboard) and the time period the Dashboard showed at that moment.
CategoriesCall(p) ==
    [api |-> "categories", period |-> p, category |-> "none", days |-> 0,
     limit |-> 0, status |-> "pending", inst |-> 0, view |-> p]

TrendCall(c, n, view) ==
    [api |-> "trend", period |-> "none", category |-> c, days |-> TrendDays,
     limit |-> 0, status |-> "pending", inst |-> n, view |-> view]

ProductsCall(p, c, n) ==
    [api |-> "products", period |-> p, category |-> c, days |-> 0,
     limit |-> ProductLimit, status |-> "pending", inst |-> n, view |-> p]

\* What a call asks the backend for.
Params(call) ==
    [api |-> call.api, period |-> call.period, category |-> call.category,
     days |-> call.days, limit |-> call.limit]

NoData == [api |-> "none", period |-> "none", category |-> "none",
           days |-> 0, limit |-> 0]

\* A detail panel that is not mounted.
NoPanel == [mounted |-> FALSE, inst |-> 0, category |-> "null",
            data |-> NoData, loading |-> TRUE]

PanelApi(k) == IF k = "chart" THEN "trend" ELSE "products"

\* The detailed view is rendered when the Dashboard is not loading and a
\* category is selected.
Shown(ld, sel) == ~ld /\ sel # "null"

\* ------------------------------------------------------------------ state
VARIABLES observations, stage, status, config, failedStage, failure,
          fitStarted, todo, model, store, service, req

\* Feature builder under test: two series, the target day, their vectors.
VARIABLES series, target, features

\* Outcome of deploy_model per run: none, deployed or alerted.
VARIABLE deployment

\* Combiner under test: a pair of sub-model outputs and the entry built.
VARIABLE blend

\* Dashboard page: the state of Dashboard, the card that has the keyboard
\* focus, the state of the two detail panels (ForecastChart, TopProducts) and
\* every HTTP call issued so far with its status.
VARIABLES timePeriod, categories, selectedCategory, loading, focus, panel,
          calls

\* What the consumer of a forecast sequence has seen before it restarted
\* the sequence, and how often it restarted it.
VARIABLE replay

\* The App component: its loading flag, its error message and the state of
\* the health check its mount effect issued.
VARIABLE app

trainVars == <<stage, status, config, failedStage, failure, fitStarted,
               todo, model>>
engineVars == <<observations, stage, status, config, failedStage, failure,
                fitStarted, todo, model, store, service, req>>
featVars == <<series, target, features>>
pageVars == <<timePeriod, categories, selectedCategory, loading, focus, panel,
             calls>>
extraVars == <<replay, app>>
otherVars == <<featVars, deployment, blend, pageVars, extraVars>>
vars == <<engineVars, otherVars>>

FeaturesIdle ==
    /\ series = [s \in SeriesIds |-> NoSeries]
    /\ target = 0
    /\ features = [s \in SeriesIds |-> NoFeatures]

DeployIdle == deployment = [r \in Runs |-> "none"]

BlendIdle == blend = NoBlend

NoReplay == [restarts |-> 0, previous |-> <<>>]

\* No sequence has been restarted and the App is not part of the run.
ExtraIdle ==
    /\ replay = [q \in Requests |-> NoReplay]
    /\ app = [loading |-> TRUE, error |-> "null", health |-> "none"]

\* The Dashboard as useState initialises it, before its effects have run.
PageIdle ==
    /\ timePeriod = "month"
    /\ categories = <<>>
    /\ selectedCategory = "null"
    /\ loading = TRUE
    /\ focus = "none"
    /\ panel = [k \in Panels |-> NoPanel]
    /\ calls = <<>>

\* Nothing outside the engine has happened.
InitOther ==
    /\ FeaturesIdle
    /\ DeployIdle
    /\ ExtraIdle
    /\ BlendIdle
    /\ PageIdle

ObservationTables ==
    {obs \in [Categories -> HistoryLengths] : KnownCategories(obs) # {}}

IdleRequest == [pc |-> "idle", category |-> "Z", horizon |-> 0,
                out |-> <<>>, error |-> "none"]

NoService == [started |-> FALSE, present |-> FALSE, model |-> NewModel,
              loads |-> 0, error |-> "none"]

InitTrainer ==
    /\ stage = [r \in Runs |-> "Uninitialized"]
    /\ status = [r \in Runs |-> "idle"]
    /\ config = [r \in Runs |-> NoConfig]
    /\ failedStage = [r \in Runs |-> "none"]
    /\ failure = [r \in Runs |-> "none"]
    /\ fitStarted = [r \in Runs |-> FALSE]
    /\ todo = [r \in Runs |-> {}]
    /\ model = [r \in Runs |-> NewModel]

\* Before any run: the table of observations is in memory, the store is
\* empty or still holds the bundle of the 17-feature pipeline.
Init ==
    /\ observations \in ObservationTables
    /\ InitTrainer
    /\ store \in {[present |-> FALSE, bundle |-> EmptyBundle, writer |-> "none"],
                  [present |-> TRUE, bundle |-> StaleBundle, writer |-> "none"]}
    /\ service = NoService
    /\ req = [q \in Requests |-> IdleRequest]
    /\ InitOther

\* ---------------------------------------------------------------- trainer
\* train(observations, config): the weights are checked before anything else.
Train(r, cfg) ==
    /\ status[r] = "idle"
    /\ config' = [config EXCEPT ![r] = cfg]
    /\ IF ValidWeights(cfg)
       THEN /\ status' = [status EXCEPT ![r] = "running"]
            /\ UNCHANGED <<failure, failedStage>>
       ELSE /\ status' = [status EXCEPT ![r] = "failed"]
            /\ failure' = [failure EXCEPT ![r] = "InvalidWeights"]
            /\ failedStage' = [failedStage EXCEPT ![r] = NextStage(stage[r])]
    /\ UNCHANGED otherVars
    /\ UNCHANGED <<observations, stage, fitStarted, todo, model, store,
                   service, req>>

LoadData(r) ==
    /\ status[r] = "running"
    /\ stage[r] = "Uninitialized"
    /\ stage' = [stage EXCEPT ![r] = "DataReady"]
    /\ todo' = [todo EXCEPT ![r] = KnownCategories(observations)]
    /\ UNCHANGED otherVars
    /\ UNCHANGED <<observations, status, config, failedStage, failure,
                   fitStarted, model, store, service, req>>

BuildFeatures(r) ==
    /\ status[r] = "running"
    /\ stage[r] = "DataReady"
    /\ stage' = [stage EXCEPT ![r] = "FeaturesBuilt"]
    /\ model' = [model EXCEPT ![r] = BuiltFeatures(@, observations, config[r])]
    /\ UNCHANGED otherVars
    /\ UNCHANGED <<observations, status, config, failedStage, failure,
                   fitStarted, todo, store, service, req>>

\* The fit with a generator that is not seeded.
FitXgb_unseeded(r) ==
    /\ status[r] = "running"
    /\ stage[r] = "FeaturesBuilt"
    /\ ~fitStarted[r]
    /\ fitStarted' = [fitStarted EXCEPT ![r] = TRUE]
    /\ \E seed \in {RandomState, RandomState + 1} :
         model' = [model EXCEPT ![r] =
                     FittedXgbSeeded(@, observations, config[r], seed)]
    /\ UNCHANGED otherVars
    /\ UNCHANGED <<observations, stage, status, config, failedStage, failure,
                   todo, store, service, req>>

FitXgb(r) ==
    /\ status[r] = "running"
    /\ stage[r] = "FeaturesBuilt"
    /\ ~fitStarted[r]
    /\ fitStarted' = [fitStarted EXCEPT ![r] = TRUE]
    /\ model' = [model EXCEPT ![r] = FittedXgb(@, observations, config[r])]
    /\ UNCHANGED otherVars
    /\ UNCHANGED <<observations, stage, status, config, failedStage, failure,
                   todo, store, service, req>>

\* The Holt-Winters loop without the fallback: the fit of a sparse
\* category raises and the run ends.
FitHw_raises(r) ==
    /\ status[r] = "running"
    /\ stage[r] = "FeaturesBuilt"
    /\ fitStarted[r]
    /\ todo[r] # {}
    /\ LET c == FirstCategory(todo[r])
       IN  IF TrainLen(observations[c], config[r].holdout) >= MinSeasonalPoints
           THEN /\ model' = [model EXCEPT ![r] =
                               FittedHw(@, c, observations, config[r])]
                /\ todo' = [todo EXCEPT ![r] = @ \ {c}]
                /\ stage' = [stage EXCEPT ![r] =
                               IF todo[r] = {c} THEN "ModelsFit" ELSE @]
                /\ UNCHANGED <<status, failure, failedStage>>
           ELSE /\ status' = [status EXCEPT ![r] = "failed"]
                /\ failure' = [failure EXCEPT ![r] = "InsufficientHistory"]
                /\ failedStage' = [failedStage EXCEPT ![r] = "ModelsFit"]
                /\ UNCHANGED <<model, todo, stage>>
    /\ UNCHANGED otherVars
    /\ UNCHANGED <<observations, config, fitStarted, store, service, req>>

FitHw(r) ==
    /\ status[r] = "running"
    /\ stage[r] = "FeaturesBuilt"
    /\ fitStarted[r]
    /\ todo[r] # {}
    /\ LET c == FirstCategory(todo[r])
       IN  /\ model' = [model EXCEPT ![r] = FittedHw(@, c, observations, config[r])]
           /\ todo' = [todo EXCEPT ![r] = @ \ {c}]
           /\ stage' = [stage EXCEPT ![r] =
                          IF todo[r] = {c} THEN "ModelsFit" ELSE @]
    /\ UNCHANGED otherVars
    /\ UNCHANGED <<observations, status, config, failedStage, failure,
                   fitStarted, store, service, req>>

Evaluate(r) ==
    /\ status[r] = "running"
    /\ stage[r] = "ModelsFit"
    /\ stage' = [stage EXCEPT ![r] = "Evaluated"]
    /\ model' = [model EXCEPT ![r] = evaluate_model(@, observations, config[r])]
    /\ UNCHANGED otherVars
    /\ UNCHANGED <<observations, status, config, failedStage, failure,
                   fitStarted, todo, store, service, req>>

\* Saving as soon as the models are fitted, evaluated or not.
Serialize_skipsEvaluate(r) ==
    /\ status[r] = "running"
    /\ stage[r] \in {"ModelsFit", "Evaluated"}
    /\ stage' = [stage EXCEPT ![r] = "Serialized"]
    /\ status' = [status EXCEPT ![r] = "done"]
    /\ store' = [present |-> TRUE, bundle |-> save(model[r]), writer |-> r]
    /\ UNCHANGED otherVars
    /\ UNCHANGED <<observations, config, failedStage, failure, fitStarted,
                   todo, model, service, req>>

\* Saving whatever the run holds even after the run has failed.
Serialize_afterFailure(r) ==
    /\ status[r] \in {"running", "failed"}
    /\ stage[r] = "Evaluated" \/ status[r] = "failed"
    /\ stage' = [stage EXCEPT ![r] = IF status[r] = "failed" THEN @ ELSE "Serialized"]
    /\ status' = [status EXCEPT ![r] = IF @ = "failed" THEN @ ELSE "done"]
    /\ store' = [present |-> TRUE, bundle |-> save(model[r]), writer |-> r]
    /\ UNCHANGED otherVars
    /\ UNCHANGED <<observations, config, failedStage, failure, fitStarted,
                   todo, model, service, req>>

\* Saving entry by entry into the bundle that is already at the location.
Serialize_merge(r) ==
    /\ status[r] = "running"
    /\ stage[r] = "Evaluated"
    /\ stage' = [stage EXCEPT ![r] = "Serialized"]
    /\ status' = [status EXCEPT ![r] = "done"]
    /\ store' = [present |-> TRUE,
                 bundle |-> IF store.present
                            THEN [store.bundle EXCEPT
                                    !.xgb_model = model[r].xgb_model,
                                    !.scaler = model[r].scaler]
                            ELSE save(model[r]),
                 writer |-> r]
    /\ UNCHANGED otherVars
    /\ UNCHANGED <<observations, config, failedStage, failure, fitStarted,
                   todo, model, service, req>>

Serialize(r) ==
    /\ status[r] = "running"
    /\ stage[r] = "Evaluated"
    /\ stage' = [stage EXCEPT ![r] = "Serialized"]
    /\ status' = [status EXCEPT ![r] = "done"]
    /\ store' = [present |-> TRUE, bundle |-> save(model[r]), writer |-> r]
    /\ UNCHANGED otherVars
    /\ UNCHANGED <<observations, config, failedStage, failure, fitStarted,
                   todo, model, service, req>>

\* An exception in the stage the run is working on aborts the run.
StageFails(r) ==
    /\ status[r] = "running"
    /\ status' = [status EXCEPT ![r] = "failed"]
    /\ failure' = [failure EXCEPT ![r] = "StageError"]
    /\ failedStage' = [failedStage EXCEPT ![r] = NextStage(stage[r])]
    /\ UNCHANGED otherVars
    /\ UNCHANGED <<observations, stage, config, fitStarted, todo, model,
                   store, service, req>>

\* deploy_model(model, metrics) on the finished run: deploy when the metrics
\* meet the threshold, send an alert otherwise.
DeployModel(r) ==
    /\ status[r] = "done"
    /\ deployment[r] = "none"
    /\ deployment' = [deployment EXCEPT ![r] =
                        IF MeetsThreshold(model[r].metrics)
                        THEN "deployed" ELSE "alerted"]
    /\ UNCHANGED <<engineVars, featVars, blend, pageVars, extraVars>>

TrainerNext(r) ==
    \/ \E cfg \in Configs : Train(r, cfg)
    \/ LoadData(r)
    \/ BuildFeatures(r)
    \/ FitXgb(r)
    \/ FitHw(r)
    \/ Evaluate(r)
    \/ Serialize(r)
    \/ DeployModel(r)
    \/ StageFails(r)

\* ------------------------------------------------------- forecast service
\* One attempt to load the bundle from the store into the service.
LoadAttempt(svc, st) ==
    IF ~st.present THEN [svc EXCEPT !.error = "ModelNotFound"]
    ELSE IF ~SchemaMatches(st.bundle) THEN [svc EXCEPT !.error = "SchemaMismatch"]
    ELSE [svc EXCEPT !.present = TRUE, !.model = load(st.bundle),
                     !.loads = @ + 1, !.error = "none"]

\* Step 1 that loads the bundle on every request.
EnsureLoaded_always(svc, st) == LoadAttempt(svc, st)

\* Step 1 of a request: load the ensemble model if it is not cached.
EnsureLoaded(svc, st) == IF svc.present THEN svc ELSE LoadAttempt(svc, st)

\* The service loads the bundle at startup.
ServiceStart ==
    /\ ~service.started
    /\ service' = [LoadAttempt(service, store) EXCEPT !.started = TRUE]
    /\ UNCHANGED otherVars
    /\ UNCHANGED <<observations, trainVars, store, req>>

\* A prediction request arrives: model lookup, then model.predict is called.
ReqArrive(q, c, h) ==
    /\ service.started
    /\ req[q].pc = "idle"
    /\ service' = EnsureLoaded(service, store)
    /\ req' = [req EXCEPT ![q] =
                 [pc |-> IF service'.present THEN "predict" ELSE "failed",
                  category |-> c, horizon |-> h, out |-> <<>>,
                  error |-> service'.error]]
    /\ UNCHANGED otherVars
    /\ UNCHANGED <<observations, trainVars, store>>

\* predict: a category never seen in training is refused.
ReqPredict(q) ==
    /\ req[q].pc = "predict"
    /\ req' = [req EXCEPT ![q] =
                 IF CategoryKnown(service.model, @.category)
                 THEN [@ EXCEPT !.pc = "yield"]
                 ELSE [@ EXCEPT !.pc = "failed", !.error = "UnknownCategory"]]
    /\ UNCHANGED otherVars
    /\ UNCHANGED <<observations, trainVars, store, service>>

\* The next entry of the lazy forecast sequence.
ReqYield(q) ==
    /\ req[q].pc = "yield"
    /\ LET out == Append(req[q].out,
                         ForecastEntry(service.model, req[q].category,
                                       Len(req[q].out) + 1))
       IN  req' = [req EXCEPT ![q] =
                     [@ EXCEPT !.out = out,
                               !.pc = IF Len(out) = req[q].horizon
                                      THEN "done" ELSE "yield"]]
    /\ UNCHANGED otherVars
    /\ UNCHANGED <<observations, trainVars, store, service>>

RequestNext(q) ==
    \/ \E c \in RequestCategories, h \in 1..MaxHorizon : ReqArrive(q, c, h)
    \/ ReqPredict(q)
    \/ ReqYield(q)

\* ---------------------------------------------------------- specifications
\* One training run, the service and one request.
Next ==
    \/ TrainerNext("r1")
    \/ ServiceStart
    \/ RequestNext("q1")

Spec == Init /\ [][Next]_vars

\* Serving: a complete run has written its bundle; the service handles two
\* requests that interleave step by step.
InitServe ==
    /\ observations \in ObservationTables
    /\ \E cfg \in {c \in Configs : ValidWeights(c)} :
         /\ config = [r \in Runs |-> IF r = "r1" THEN cfg ELSE NoConfig]
         /\ model = [r \in Runs |->
                       IF r = "r1" THEN TrainedModel(observations, cfg) ELSE NewModel]
         /\ store = [present |-> TRUE,
                     bundle |-> save(TrainedModel(observations, cfg)),
                     writer |-> "r1"]
    /\ stage = [r \in Runs |-> IF r = "r1" THEN "Serialized" ELSE "Uninitialized"]
    /\ status = [r \in Runs |-> IF r = "r1" THEN "done" ELSE "idle"]
    /\ failedStage = [r \in Runs |-> "none"]
    /\ failure = [r \in Runs |-> "none"]
    /\ fitStarted = [r \in Runs |-> r = "r1"]
    /\ todo = [r \in Runs |-> {}]
    /\ service = NoService
    /\ req = [q \in Requests |-> IdleRequest]
    /\ InitOther

NextServe ==
    \/ ServiceStart
    \/ \E q \in Requests : RequestNext(q)

ServeSpec == InitServe /\ [][NextServe]_vars

\* The staged run builds the model TrainedModel describes.
RunBuildsTrainedModel ==
    \A r \in Runs : status[r] = "done" =>
        model[r] = TrainedModel(observations, config[r])

\* ------------------------------------------------------------- properties
EntryWellFormed(e) ==
    /\ e.predicted_sales >= 0
    /\ e.confidence_lower <= e.predicted_sales
    /\ e.predicted_sales <= e.confidence_upper

LongHistory(c) == c \in Categories /\ observations[c] >= HoldoutDays

C2_StagesForward ==
    [][\A r \in Runs :
          stage'[r] # stage[r] =>
              /\ stage[r] # "Serialized"
              /\ StageIndex(stage'[r]) = StageIndex(stage[r]) + 1]_vars

\* C2 witness: a run has gone through the whole pipeline.
C2_Witness == \E r \in Runs : stage[r] = "Serialized" /\ status[r] = "done"

StoreFromRun == store.present /\ store.writer \in Runs
StoredRunModel == model[store.writer]
StoredRunConfig == config[store.writer]

\* Categories of the table with fewer than 14 daily points to fit on.
SparseCategories(cfg) ==
    {c \in KnownCategories(observations) :
        TrainLen(observations[c], cfg.holdout) < 2 * SeasonalPeriod}

\* The forecast of an entry for a fallback category: interaction alone.
InteractionOnlyEntry(m, c, i) ==
    Max(WeightOne * XgbPredict(m.xgb_model, c, i), 0) * 100

\* The forecast of an entry blended with the weights of a configuration.
ConfiguredBlendEntry(m, cfg, c, i) ==
    Max(cfg.xgb * XgbPredict(m.xgb_model, c, i)
          + cfg.hw * HwForecast(m.hw_models[c], i), 0) * 100

\* Training side of the fallback: a sparse category gets no seasonal model
\* and the metadata of the model names it; every other category is fitted.
FallbackRecorded ==
    \A r \in Runs :
        stage[r] \in {"ModelsFit", "Evaluated", "Serialized"} =>
            /\ DOMAIN model[r].hw_models =
                   KnownCategories(observations) \ SparseCategories(config[r])
            /\ model[r].fallback = SparseCategories(config[r])

\* Serving side of the fallback: the entries of a sparse category are the
\* interaction-only prediction.
FallbackIsInteractionOnly ==
    \A q \in Requests :
        (StoreFromRun /\ req[q].category \in SparseCategories(StoredRunConfig)) =>
            \A i \in 1..Len(req[q].out) :
                req[q].out[i].predicted_sales =
                    InteractionOnlyEntry(StoredRunModel, req[q].category, i)

\* C5: a category with fewer than 14 daily points gets no seasonal model,
\* the metadata records its fallback, its forecasts are the interaction-only
\* prediction, and the categories that have a seasonal model are blended
\* with the configured weights.
C5_FallbackAndConfiguredBlend ==
    /\ FallbackRecorded
    /\ FallbackIsInteractionOnly
    /\ \A q \in Requests :
          (/\ StoreFromRun
           /\ req[q].category \in KnownCategories(observations)
           /\ req[q].category \notin SparseCategories(StoredRunConfig)) =>
              \A i \in 1..Len(req[q].out) :
                  req[q].out[i].predicted_sales =
                      ConfiguredBlendEntry(StoredRunModel, StoredRunConfig,
                                           req[q].category, i)

OverlapConfigs ==
    {[xgb |-> XgbWeight, hw |-> HwWeight, holdout |-> HoldoutDays],
     [xgb |-> XgbWeight, hw |-> HwWeight, holdout |-> HoldoutDays - 1]}

OverlapNext ==
    \E r \in Runs :
        \/ \E cfg \in OverlapConfigs : Train(r, cfg)
        \/ LoadData(r)
        \/ BuildFeatures(r)
        \/ FitXgb(r)
        \/ FitHw(r)
        \/ Evaluate(r)
        \/ Serialize(r)
        \/ DeployModel(r)
        \/ StageFails(r)

OverlapSpec == Init /\ [][OverlapNext]_vars

\* Run r saves in this step.
Saves(r) == stage[r] = "Evaluated" /\ stage'[r] = "Serialized"

TrainEnd(r, c) == observations[c] - config[r].holdout

RECURSIVE TrailingDays(_, _)
TrailingDays(S, k) ==
    IF S = {} THEN 0
    ELSE LET c == CHOOSE x \in S : TRUE
         IN  Min(observations[c], k) + TrailingDays(S \ {c}, k)

\* C12: the fitted sub-models are functions of the days before the
\* trailing K days only (the seasonal series ends at day n - K, the
\* interaction level is the mean of the last days up to n - K), and the
\* evaluation is made on exactly the trailing days.
C12_HoldoutNotFitted ==
    \A r \in Runs :
        /\ \A c \in DOMAIN model[r].hw_models :
              /\ model[r].hw_models[c].last = TrainEnd(r, c)
              /\ model[r].hw_models[c].level = Sales(c, TrainEnd(r, c))
        /\ \A c \in DOMAIN model[r].xgb_model :
              TrainEnd(r, c) >= 2 =>
                  model[r].xgb_model[c] =
                      SumSales(c, Max(TrainEnd(r, c) - 6, 1), TrainEnd(r, c))
                        \div Min(TrainEnd(r, c), 7)
        /\ stage[r] \in {"Evaluated", "Serialized"} =>
              model[r].metrics.rows =
                  TrailingDays(KnownCategories(observations), config[r].holdout)

\* C12 witness: a run with a 30-day holdout has fitted a seasonal model on
\* the first 14 of 44 days and has been evaluated on 30 rows or more.
C12_Witness ==
    \E r \in Runs, c \in Categories :
        /\ stage[r] = "Evaluated"
        /\ config[r].holdout = HoldoutDays
        /\ observations[c] = 44
        /\ c \in DOMAIN model[r].hw_models
        /\ model[r].hw_models[c].last = 14
        /\ model[r].metrics.rows >= HoldoutDays


\* ------------------------------------------- feature builder, two series
MaxSeriesDays == 33
BumpDeltas == {5}

\* The engine before any run, with no table loaded.
EngineIdle ==
    /\ observations = [c \in Categories |-> 0]
    /\ InitTrainer
    /\ store = [present |-> FALSE, bundle |-> EmptyBundle, writer |-> "none"]
    /\ service = NoService
    /\ req = [q \in Requests |-> IdleRequest]

\* s1 is the full synthetic series of a category; s2 is the same series
\* with one day's observation raised. The target day is an input too.
FeatureInit ==
    /\ EngineIdle
    /\ \E c \in Categories, p \in 1..MaxSeriesDays, dl \in BumpDeltas :
         series = [s \in SeriesIds |->
                     [category |-> c, days |-> MaxSeriesDays,
                      bump |-> IF s = "s2" THEN p ELSE 0,
                      delta |-> IF s = "s2" THEN dl ELSE 0]]
    /\ target \in 1..MaxSeriesDays
    /\ features = [s \in SeriesIds |-> NoFeatures]
    /\ DeployIdle
    /\ ExtraIdle
    /\ BlendIdle
    /\ PageIdle

Prepared(sr, T) ==
    [s \in SeriesIds |-> [day |-> T, vec |-> FeatureVector(sr[s], T)]]

Derived == \A s \in SeriesIds : features[s] # NoFeatures

\* prepare_features over both series, read at the target day.
PrepareFeatures ==
    /\ ~Derived
    /\ features' = Prepared(series, target)
    /\ UNCHANGED <<series, target, engineVars, deployment, blend, pageVars, extraVars>>

\* A later day is appended to s2 and the features are derived again.
AppendDay ==
    /\ Derived
    /\ series["s2"].days < MaxSeriesDays
    /\ series' = [series EXCEPT !["s2"].days = @ + 1]
    /\ features' = Prepared(series', target)
    /\ UNCHANGED <<target, engineVars, deployment, blend, pageVars, extraVars>>

\* The last day of s2, a day after the target day, is removed and the
\* features are derived again.
RemoveDay ==
    /\ Derived
    /\ series["s2"].days > target
    /\ series' = [series EXCEPT !["s2"].days = @ - 1]
    /\ features' = Prepared(series', target)
    /\ UNCHANGED <<target, engineVars, deployment, blend, pageVars, extraVars>>

FeatureNext ==
    \/ PrepareFeatures
    \/ AppendDay
    \/ RemoveDay

FeatureSpec == FeatureInit /\ [][FeatureNext]_vars

\* The observations of a series: its values on its days.
Observed(s, d) == IF d <= s.days THEN SeriesValue(s, d) ELSE -1

AgreeUpTo(a, b, T) ==
    /\ a.category = b.category
    /\ \A d \in 1..T : Observed(a, d) = Observed(b, d)

DifferAfter(a, b, T) ==
    \E d \in (T + 1)..MaxSeriesDays : Observed(a, d) # Observed(b, d)

\* C13: two series that agree on every observation dated at or before the
\* target day T, and differ only after T, have the same feature vector at T.
C13_NoLookAhead ==
    \A a, b \in SeriesIds :
        (/\ features[a] # NoFeatures
         /\ features[a].day = target
         /\ features[b].day = target
         /\ AgreeUpTo(series[a], series[b], target))
        => features[a].vec = features[b].vec

\* Day 31 with all three lags inside the series, s2 two or more days shorter
\* than s1 and with a raised observation after day 31.
C13_Witness ==
    /\ target = 31
    /\ Derived
    /\ series["s2"].days < series["s1"].days
    /\ series["s2"].bump > target /\ series["s2"].bump <= series["s2"].days
    /\ AgreeUpTo(series["s1"], series["s2"], target)
    /\ DifferAfter(series["s1"], series["s2"], target)
    /\ features["s1"].vec = features["s2"].vec
    /\ features["s1"].vec.lag_30 = SeriesValue(series["s1"], 1)
    /\ features["s1"].vec.rolling_mean_7
         = SumValues(series["s1"], 24, 30) \div 7


\* ------------------------------------------------- reproducibility, gate
Evaluated(r) == stage[r] \in {"Evaluated", "Serialized"}

LowR2(r) == Evaluated(r) /\ model[r].metrics.r2 < MinR2

\* A low R2 never ends a run: the evaluated run can always save, and no
\* failure is one of quality.
LowR2NoAbort ==
    \A r \in Runs :
        /\ (status[r] = "running" /\ LowR2(r) /\ stage[r] = "Evaluated")
              => ENABLED Serialize(r)
        /\ failure[r] \in {"none", "InvalidWeights", "StageError"}

\* The artifact of a finished run with low R2 carries a warning.
LowR2WarningRecorded ==
    \A r \in Runs :
        (status[r] = "done" /\ LowR2(r)) =>
            \E w \in model[r].warnings : w[2] = "LowR2"

\* C15: a run whose holdout R2 is below the minimum acceptance threshold
\* still finishes with a complete artifact whose metadata carries a recorded
\* warning, and is never aborted because of the low R2.
C15_LowR2IsWarning == LowR2NoAbort /\ LowR2WarningRecorded


\* ------------------------------------------------- combiner, every pair
MaxOutput == 10

CombinerInit ==
    /\ EngineIdle
    /\ FeaturesIdle
    /\ DeployIdle
    /\ ExtraIdle
    /\ PageIdle
    /\ \E x, h \in (0 - MaxOutput)..MaxOutput :
         blend = [xgb_pred |-> x, hw_pred |-> h, out |-> NoEntry]

\* The model blends the two sub-model outputs of one day.
Combine ==
    /\ blend.out = NoEntry
    /\ blend' = [blend EXCEPT !.out = CombineEntry(blend.xgb_pred, blend.hw_pred)]
    /\ UNCHANGED <<engineVars, featVars, deployment, pageVars, extraVars>>

\* The next pair of outputs comes in.
NextPair ==
    /\ blend.out # NoEntry
    /\ \E x, h \in (0 - MaxOutput)..MaxOutput :
         blend' = [xgb_pred |-> x, hw_pred |-> h, out |-> NoEntry]
    /\ UNCHANGED <<engineVars, featVars, deployment, pageVars, extraVars>>

CombinerNext == Combine \/ NextPair

CombinerSpec == CombinerInit /\ [][CombinerNext]_vars

\* C16: for every pair of sub-model outputs, negative ones included, the
\* point forecast is max(0.6 * interaction + 0.4 * seasonal, 0) with weights
\* that sum to 1, confidence_lower is max(forecast * (1 - 0.15), 0) and
\* confidence_upper is forecast * (1 + 0.15), both taken from the floored
\* forecast (forecast in tenths, entry in thousandths).
C16_BlendAndBounds ==
    blend.out # NoEntry =>
        LET forecast == Max(XgbWeight * blend.xgb_pred
                              + HwWeight * blend.hw_pred, 0)
        IN  /\ XgbWeight + HwWeight = 10
            /\ blend.out.predicted_sales = 100 * forecast
            /\ blend.out.confidence_lower = Max(forecast * (100 - MarginPct), 0)
            /\ blend.out.confidence_upper = forecast * (100 + MarginPct)

\* A negative seasonal output that drags the blend below zero: the forecast
\* is floored and both bounds are taken from it.
C16_Witness ==
    /\ blend.out # NoEntry
    /\ blend.hw_pred < 0 /\ blend.xgb_pred > 0
    /\ XgbWeight * blend.xgb_pred + HwWeight * blend.hw_pred < 0
    /\ blend.out.predicted_sales = 0
    /\ blend.out.confidence_upper = 0


\* ------------------------------------------------------ artifact metadata
MetadataKeys == {"version", "window", "weights", "fallback", "metrics"}

\* What load gives back of the metadata of the model that was saved.
MetadataReturned ==
    /\ load(store.bundle).version = StoredRunModel.version
    /\ load(store.bundle).weights = StoredRunModel.weights
    /\ load(store.bundle).fallback = StoredRunModel.fallback
    /\ load(store.bundle).metrics = StoredRunModel.metrics

\* C17: every artifact written by save records the model version, the
\* training window, the ensemble weights, the per-category fallback flags
\* and the evaluation report, and load returns them unchanged.
C17_ArtifactMetadata ==
    StoreFromRun =>
        /\ MetadataReturned
        /\ MetadataKeys \subseteq DOMAIN store.bundle


\* ---------------------------------------------------------- dashboard page
MaxCalls == 4

\* The Dashboard has mounted and its effect has called loadForecasts.
PageInit ==
    /\ EngineIdle
    /\ FeaturesIdle
    /\ DeployIdle
    /\ ExtraIdle
    /\ BlendIdle
    /\ timePeriod = "month"
    /\ categories = <<>>
    /\ selectedCategory = "null"
    /\ loading = TRUE
    /\ focus = "none"
    /\ panel = [k \in Panels |-> NoPanel]
    /\ calls = <<CategoriesCall("month")>>

\* The panels after a render of the Dashboard with loading ld and selected
\* category sel: unmounted, freshly mounted, reloading for a new category,
\* or as they were.
PanelsAfter(ld, sel) ==
    [k \in Panels |->
        IF ~Shown(ld, sel)
        THEN [NoPanel EXCEPT !.inst = panel[k].inst]
        ELSE IF ~Shown(loading, selectedCategory)
        THEN [mounted |-> TRUE, inst |-> panel[k].inst + 1, category |-> sel,
              data |-> NoData, loading |-> TRUE]
        ELSE IF sel # selectedCategory
        THEN [panel[k] EXCEPT !.category = sel, !.loading = TRUE]
        ELSE panel[k]]

\* The calls after that render: a panel that mounts or gets a new category
\* runs its load effect (loadTrendData, loadProducts).
CallsAfter(cs, ld, sel) ==
    IF Shown(ld, sel) /\ (~Shown(loading, selectedCategory) \/ sel # selectedCategory)
    THEN cs \o <<TrendCall(sel, PanelsAfter(ld, sel)["chart"].inst, timePeriod),
                 ProductsCall(timePeriod, sel, PanelsAfter(ld, sel)["products"].inst)>>
    ELSE cs

Pending(i, api) ==
    /\ i \in 1..Len(calls)
    /\ calls[i].api = api
    /\ calls[i].status = "pending"

\* handleTimePeriodChange(period): the new period re-creates loadProducts and
\* loadForecasts; TopProducts (if shown) reloads, then loadForecasts sets
\* loading and fetches, which takes the cards and the detailed view down.
HandleTimePeriodChange(p) ==
    /\ p # timePeriod
    /\ Len(calls) < MaxCalls
    /\ timePeriod' = p
    /\ loading' = TRUE
    /\ focus' = "none"
    /\ calls' = (IF Shown(loading, selectedCategory)
                 THEN Append(calls, ProductsCall(p, selectedCategory,
                                                 panel["products"].inst))
                 ELSE calls) \o <<CategoriesCall(p)>>
    /\ panel' = PanelsAfter(TRUE, selectedCategory)
    /\ UNCHANGED <<categories, selectedCategory>>
    /\ UNCHANGED <<engineVars, featVars, deployment, blend, extraVars>>

\* A loadForecasts that clears the selection it finds.
ForecastsArrive_resetsSelection(i) ==
    /\ Pending(i, "categories")
    /\ LET data == Forecasts(calls[i].period)
           sel  == IF selectedCategory = "null" /\ Len(data) > 0
                   THEN data[1].category ELSE "null"
       IN  /\ categories' = data
           /\ selectedCategory' = sel
           /\ loading' = FALSE
           /\ panel' = PanelsAfter(FALSE, sel)
           /\ calls' = CallsAfter([calls EXCEPT ![i].status = "ok"], FALSE, sel)
    /\ UNCHANGED <<timePeriod, focus>>
    /\ UNCHANGED <<engineVars, featVars, deployment, blend, extraVars>>

\* A getCategoryForecasts call resolves: loadForecasts continues.
ForecastsArrive(i) ==
    /\ Pending(i, "categories")
    /\ LET data == Forecasts(calls[i].period)
           sel  == IF selectedCategory = "null" /\ Len(data) > 0
                   THEN data[1].category ELSE selectedCategory
       IN  /\ categories' = data
           /\ selectedCategory' = sel
           /\ loading' = FALSE
           /\ panel' = PanelsAfter(FALSE, sel)
           /\ calls' = CallsAfter([calls EXCEPT ![i].status = "ok"], FALSE, sel)
    /\ UNCHANGED <<timePeriod, focus>>
    /\ UNCHANGED <<engineVars, featVars, deployment, blend, extraVars>>

\* A catch branch that empties the category list.
ForecastsFail_clearsList(i) ==
    /\ Pending(i, "categories")
    /\ loading' = FALSE
    /\ categories' = <<>>
    /\ panel' = PanelsAfter(FALSE, selectedCategory)
    /\ calls' = CallsAfter([calls EXCEPT ![i].status = "failed"], FALSE,
                           selectedCategory)
    /\ UNCHANGED <<timePeriod, selectedCategory, focus>>
    /\ UNCHANGED <<engineVars, featVars, deployment, blend, extraVars>>

\* A getCategoryForecasts call rejects: the error is logged.
ForecastsFail(i) ==
    /\ Pending(i, "categories")
    /\ loading' = FALSE
    /\ panel' = PanelsAfter(FALSE, selectedCategory)
    /\ calls' = CallsAfter([calls EXCEPT ![i].status = "failed"], FALSE,
                           selectedCategory)
    /\ UNCHANGED <<timePeriod, categories, selectedCategory, focus>>
    /\ UNCHANGED <<engineVars, featVars, deployment, blend, extraVars>>

\* A catch branch that throws the loaded data away.
PanelSettles_clearsOnFailure(k, i, ok) ==
    /\ Pending(i, PanelApi(k))
    /\ calls' = [calls EXCEPT ![i].status = IF ok THEN "ok" ELSE "failed"]
    /\ panel' = IF panel[k].mounted /\ panel[k].inst = calls[i].inst
                THEN [panel EXCEPT ![k].data = IF ok THEN Params(calls[i])
                                                    ELSE NoData,
                                   ![k].loading = FALSE]
                ELSE panel
    /\ UNCHANGED <<timePeriod, categories, selectedCategory, loading, focus>>
    /\ UNCHANGED <<engineVars, featVars, deployment, blend, extraVars>>

\* A trend or products call settles: the panel instance that issued it, if
\* it is still mounted, stores the data (ok) and stops loading.
PanelSettles(k, i, ok) ==
    /\ Pending(i, PanelApi(k))
    /\ calls' = [calls EXCEPT ![i].status = IF ok THEN "ok" ELSE "failed"]
    /\ panel' = IF panel[k].mounted /\ panel[k].inst = calls[i].inst
                THEN [panel EXCEPT ![k].data = IF ok THEN Params(calls[i]) ELSE @,
                                   ![k].loading = FALSE]
                ELSE panel
    /\ UNCHANGED <<timePeriod, categories, selectedCategory, loading, focus>>
    /\ UNCHANGED <<engineVars, featVars, deployment, blend, extraVars>>

CardNames == {categories[i].category : i \in 1..Len(categories)}

\* onSelect of the card of category c.
Select(c) ==
    /\ selectedCategory' = c
    /\ panel' = PanelsAfter(loading, c)
    /\ calls' = CallsAfter(calls, loading, c)
    /\ UNCHANGED <<timePeriod, categories, loading>>
    /\ UNCHANGED <<engineVars, featVars, deployment, blend, extraVars>>

\* A click on the card of category c (the click also focuses the card).
ClickCard(c) ==
    /\ ~loading
    /\ c \in CardNames
    /\ Len(calls) < MaxCalls
    /\ focus' = c
    /\ Select(c)

\* The keyboard focus reaches the card of category c.
FocusCard(c) ==
    /\ ~loading
    /\ c \in CardNames
    /\ focus # c
    /\ focus' = c
    /\ UNCHANGED <<timePeriod, categories, selectedCategory, loading, panel, calls>>
    /\ UNCHANGED <<engineVars, featVars, deployment, blend, extraVars>>

\* handleKeyDown that selects on every key.
KeyDown_anyKey(key) ==
    /\ ~loading
    /\ focus \in CardNames
    /\ Len(calls) < MaxCalls
    /\ UNCHANGED focus
    /\ Select(focus)

\* handleKeyDown of the focused card: Enter and Space select it; any other
\* key is left to the browser (Tab moves the focus away).
KeyDown(key) ==
    /\ ~loading
    /\ focus \in CardNames
    /\ Len(calls) < MaxCalls
    /\ IF key \in SelectKeys
       THEN /\ UNCHANGED focus
            /\ Select(focus)
       ELSE /\ focus' = IF key = "Tab" THEN "none" ELSE focus
            /\ UNCHANGED <<timePeriod, categories, selectedCategory, loading,
                           panel, calls>>
            /\ UNCHANGED <<engineVars, featVars, deployment, blend, extraVars>>

PageNext ==
    \/ \E p \in Periods : HandleTimePeriodChange(p)
    \/ \E i \in 1..Len(calls) : ForecastsArrive(i)
    \/ \E i \in 1..Len(calls) : ForecastsFail(i)
    \/ \E k \in Panels, i \in 1..Len(calls), ok \in BOOLEAN : PanelSettles(k, i, ok)
    \/ \E c \in Categories : ClickCard(c)
    \/ \E c \in Categories : FocusCard(c)
    \/ \E key \in Keys : KeyDown(key)

PageSpec == PageInit /\ [][PageNext]_vars

\* The category cards as the Dashboard renders them.
Cards ==
    IF loading THEN <<>>
    ELSE [i \in 1..Len(categories) |->
            [category |-> categories[i].category,
             fetched_for |-> categories[i].fetched_for,
             pressed |-> selectedCategory = categories[i].category]]

AllForecastsSettledOk ==
    \A i \in 1..Len(calls) :
        calls[i].api = "categories" => calls[i].status = "ok"

\* C18: once every category-forecast request has settled successfully, the
\* category cards show the forecasts fetched for the selected time period,
\* whatever the order of the responses.
C18_CardsMatchPeriod ==
    AllForecastsSettledOk =>
        /\ Cards # <<>>
        /\ \A i \in 1..Len(Cards) : Cards[i].fetched_for = timePeriod


TrendCalls == {i \in 1..Len(calls) : calls[i].api = "trend"}

\* C19: the trend request issued by ForecastChart depends on the selected
\* time period: two requests for the same category issued while different
\* time periods were selected ask the backend for different things.
C19_TrendDependsOnPeriod ==
    \A i, j \in TrendCalls :
        (calls[i].category = calls[j].category /\ calls[i].view # calls[j].view)
            => Params(calls[i]) # Params(calls[j])

PressedCards == {i \in 1..Len(Cards) : Cards[i].pressed}

\* C20: a click on a card, and Enter or Space on the focused card, make
\* that card's category the selected category; any other key leaves the
\* selection unchanged; at most one card is rendered as selected, the one
\* whose category is the selected category.
C20_CardSelection ==
    [][/\ \A c \in Categories : ClickCard(c) => selectedCategory' = c
       /\ \A key \in SelectKeys : KeyDown(key) => selectedCategory' = focus
       /\ \A key \in Keys \ SelectKeys :
             KeyDown(key) => selectedCategory' = selectedCategory
       /\ Cardinality(PressedCards') <= 1
       /\ \A i \in PressedCards' : Cards'[i].category = selectedCategory'
       /\ (~loading' /\ selectedCategory' \in CardNames') => PressedCards' # {}
      ]_vars

\* The second card was selected from the keyboard focus or by a click: it is
\* the only pressed card and the detail panels follow it.
C20_Witness ==
    /\ ~loading
    /\ selectedCategory = "B"
    /\ focus = "B"
    /\ Len(Cards) = 2
    /\ Cards[2].pressed /\ ~Cards[1].pressed
    /\ panel["chart"].category = "B"


\* ------------------------------------------------------------ chart rows
HistoryShown == 30
TrendForecastDays == 30

\* Response of GET /forecast/trends/{category}?days=n: n historical points
\* (day 1 is the oldest) and the forecast points that follow them.
TrendResponse(c, n) ==
    [category |-> c,
     historical_data |-> [d \in 1..n |-> [day |-> d, kind |-> "actual"]],
     forecast_data |-> [d \in 1..TrendForecastDays |->
                          [day |-> n + d, kind |-> "forecast"]]]

\* Array.prototype.slice(-k): the last k elements.
SliceLast(s, k) == SubSeq(s, Max(Len(s) - k + 1, 1), Len(s))

\* chartData of ForecastChart.
chartData(trendData) ==
    SliceLast(trendData.historical_data, HistoryShown) \o trendData.forecast_data

\* The rows the chart plots: none while it is loading or has no data.
ChartRows ==
    IF panel["chart"].mounted /\ ~panel["chart"].loading
         /\ panel["chart"].data # NoData
    THEN chartData(TrendResponse(panel["chart"].data.category,
                                 panel["chart"].data.days))
    ELSE <<>>

\* Index of the first forecast row of rows.
FirstForecastRow(rows) ==
    CHOOSE i \in 1..Len(rows) :
        /\ rows[i].kind = "forecast"
        /\ \A j \in 1..(i - 1) : rows[j].kind = "actual"

\* The plotted historical points come before the forecast points.
HistoryBeforeForecast ==
    LET rows == ChartRows
    IN  rows # <<>> =>
            \A i \in 1..Len(rows) :
                rows[i].kind = "actual" <=> i < FirstForecastRow(rows)

\* C21: the chart plots every historical point of the 60-day trend response
\* before the first forecast point.
C21_ChartShowsSixtyDays ==
    LET rows == ChartRows
    IN  /\ HistoryBeforeForecast
        /\ rows # <<>> =>
              \A d \in 1..TrendDays :
                  \E i \in 1..(FirstForecastRow(rows) - 1) : rows[i].day = d

\* ------------------------------------------------- weights at prediction
\* The weights the combiner multiplies the two sub-model outputs with.
AppliedWeights == [xgb |-> XgbWeight, hw |-> HwWeight]

\* The weights a run was configured with.
ConfiguredWeights(cfg) == [xgb |-> cfg.xgb, hw |-> cfg.hw]

\* C22: the weights the combiner applies at prediction time are the weights
\* of the training configuration, which the artifact stores; the forecasts
\* of a run trained with other weights than 0.6/0.4 are blended with the
\* weights of that run.
C22_WeightsFromArtifact ==
    (StoreFromRun /\ status[store.writer] = "done") =>
        /\ "weights" \in DOMAIN store.bundle
        /\ AppliedWeights = ConfiguredWeights(StoredRunConfig)
        /\ \A q \in Requests :
              req[q].category \in DOMAIN StoredRunModel.hw_models =>
                  \A i \in 1..Len(req[q].out) :
                      req[q].out[i].predicted_sales =
                          ConfiguredBlendEntry(StoredRunModel, StoredRunConfig,
                                               req[q].category, i)

\* ------------------------------------------------- restarting a sequence
MaxRestarts == 2

\* A one-shot sequence: restarting it leaves it exhausted.
ReqRestart_exhausted(q) ==
    /\ req[q].pc \in {"yield", "done"}
    /\ replay[q].restarts < MaxRestarts
    /\ replay' = [replay EXCEPT ![q] = [restarts |-> @.restarts + 1,
                                        previous |-> req[q].out]]
    /\ req' = [req EXCEPT ![q] = [@ EXCEPT !.out = <<>>, !.pc = "done"]]
    /\ UNCHANGED <<observations, trainVars, store, service>>
    /\ UNCHANGED <<featVars, deployment, blend, pageVars, app>>

\* The consumer restarts the forecast sequence of its request, after it
\* has consumed some or all of it: the next entry is the first forecast day.
ReqRestart(q) ==
    /\ req[q].pc \in {"yield", "done"}
    /\ replay[q].restarts < MaxRestarts
    /\ replay' = [replay EXCEPT ![q] = [restarts |-> @.restarts + 1,
                                        previous |-> req[q].out]]
    /\ req' = [req EXCEPT ![q] = [@ EXCEPT !.out = <<>>, !.pc = "yield"]]
    /\ UNCHANGED <<observations, trainVars, store, service>>
    /\ UNCHANGED <<featVars, deployment, blend, pageVars, app>>

\* A served artifact and one request whose sequence may be restarted.
RestartNext ==
    \/ ServiceStart
    \/ RequestNext("q1")
    \/ ReqRestart("q1")

RestartSpec == InitServe /\ [][RestartNext]_vars

\* The entries consumed so far are the first entries of the sequence.
ConsumedIsPrefix(q) ==
    /\ Len(req[q].out) <= req[q].horizon
    /\ \A i \in 1..Len(req[q].out) :
          req[q].out[i] =
              PredictSeq(load(store.bundle), req[q].category,
                         req[q].horizon)[i]

C24_MapeFinite ==
    \A r \in Runs : Evaluated(r) => model[r].metrics.mape.kind = "finite"

\* ------------------------------------------------------------------- App
ConnectionError == "Unable to connect to API"

\* The App has mounted: loading, no error, and its effect has sent the
\* health check. The Dashboard is not rendered yet.
AppInit ==
    /\ EngineIdle
    /\ FeaturesIdle
    /\ DeployIdle
    /\ BlendIdle
    /\ PageIdle
    /\ replay = [q \in Requests |-> NoReplay]
    /\ app = [loading |-> TRUE, error |-> "null", health |-> "pending"]

\* What App renders: the loading screen, the connection error, or the
\* Header with the Dashboard.
Screen ==
    IF app.loading THEN "loading"
    ELSE IF app.error # "null" THEN "error"
    ELSE "dashboard"

\* A checkHealth whose catch branch does not record the error.
HealthSettles_errorDropped(ok) ==
    /\ app.health = "pending"
    /\ app' = [loading |-> FALSE, error |-> "null",
               health |-> IF ok THEN "ok" ELSE "failed"]
    /\ calls' = <<CategoriesCall(timePeriod)>>
    /\ UNCHANGED <<timePeriod, categories, selectedCategory, loading, focus,
                   panel>>
    /\ UNCHANGED <<engineVars, featVars, deployment, blend, replay>>

\* checkHealth: the health check resolves (ok) or rejects. On success the
\* loading flag is cleared, App renders the Dashboard and the Dashboard's
\* mount effect calls loadForecasts; on failure the error is set and the
\* loading flag is cleared.
HealthSettles(ok) ==
    /\ app.health = "pending"
    /\ app' = [loading |-> FALSE,
               error |-> IF ok THEN "null" ELSE ConnectionError,
               health |-> IF ok THEN "ok" ELSE "failed"]
    /\ calls' = IF ok THEN <<CategoriesCall(timePeriod)>> ELSE calls
    /\ UNCHANGED <<timePeriod, categories, selectedCategory, loading, focus,
                   panel>>
    /\ UNCHANGED <<engineVars, featVars, deployment, blend, replay>>

\* The Dashboard's handlers and responses exist while App renders it.
AppNext ==
    \/ \E ok \in BOOLEAN : HealthSettles(ok)
    \/ Screen = "dashboard" /\ PageNext

AppSpec == AppInit /\ [][AppNext]_vars

\* The Dashboard has been rendered: it has issued a request.
DashboardRendered == calls # <<>>

\* The App is on the loading screen exactly while the health check is
\* pending, and the Dashboard is rendered only after a successful check.
ScreenFollowsHealth ==
    /\ Screen = "loading" <=> app.health = "pending"
    /\ Screen = "error" <=> app.health = "failed"
    /\ DashboardRendered => app.health = "ok"

\* The loading screen is never shown again, the health check is sent once,
\* and after a failure nothing changes any more.
SettledStaysSettled ==
    /\ Screen # "loading" => Screen' = Screen
    /\ app.health # "pending" => app'.health = app.health
    /\ app.health = "failed" => (app' = app /\ pageVars' = pageVars)

\* C25: the App stays on the loading screen until the health check
\* settles and leaves it once; the Dashboard is rendered only after a
\* successful check; after a failed check the connection error stays, the
\* Dashboard is never rendered and the check is not sent again.
C25_DashboardAfterHealth ==
    []ScreenFollowsHealth /\ [][SettledStaysSettled]_vars

\* C25 witness: after a successful health check the Dashboard has loaded
\* its category forecasts.
C25_Witness ==
    /\ app.health = "ok"
    /\ Screen = "dashboard"
    /\ categories # <<>>

\* ------------------------------------------------ requests and the flags
\* The calls of an api that have not settled yet.
Outstanding(api) ==
    {i \in 1..Len(calls) : calls[i].api = api /\ calls[i].status = "pending"}

\* C26: whenever the Dashboard's loading flag is false (the category cards
\* are visible), no category-forecast request is outstanding.
C26_CardsOnlyWhenSettled ==
    ~loading => Outstanding("categories") = {}

\* The calls issued by the mounted instance of panel k.
InstanceCalls(k) ==
    {i \in 1..Len(calls) :
        calls[i].api = PanelApi(k) /\ calls[i].inst = panel[k].inst}

\* C27: once every request of a mounted ForecastChart or TopProducts has
\* settled successfully, the data it displays was fetched for the category
\* of its heading.
C27_PanelDataMatchesHeading ==
    \A k \in Panels :
        (/\ panel[k].mounted
         /\ InstanceCalls(k) # {}
         /\ \A i \in InstanceCalls(k) : calls[i].status = "ok") =>
            /\ panel[k].data # NoData
            /\ panel[k].data.category = panel[k].category

\* ------------------------------------------------- loads and the selection
\* This step settles the category-forecast call i.
LoadSettles(i) ==
    /\ calls[i].api = "categories"
    /\ calls[i].status = "pending"
    /\ calls'[i].status # "pending"

\* What a settling load does to the selection.
LoadKeepsSelection ==
    \A i \in 1..Len(calls) :
        LoadSettles(i) =>
            /\ selectedCategory # "null" =>
                   selectedCategory' = selectedCategory
            /\ selectedCategory = "null" =>
                   selectedCategory' =
                       IF calls'[i].status = "ok" /\ Len(categories') > 0
                       THEN categories'[1].category ELSE "null"

FailStep(i) ==
    /\ calls[i].status = "pending"
    /\ calls'[i].status = "failed"

\* What the failure of a request changes: the loading flag of the component
\* that sent it, and nothing that a component has loaded or selected.
FailureIsolated ==
    \A i \in 1..Len(calls) :
        FailStep(i) =>
            /\ timePeriod' = timePeriod
            /\ categories' = categories
            /\ selectedCategory' = selectedCategory
            /\ \A j \in 1..Len(calls) : j # i => calls'[j] = calls[j]
            /\ IF calls[i].api = "categories"
               THEN /\ loading' = FALSE
                    /\ \A k \in Panels :
                          panel[k].mounted => panel'[k] = panel[k]
               ELSE /\ loading' = loading
                    /\ \A k \in Panels :
                          panel'[k] =
                              IF /\ PanelApi(k) = calls[i].api
                                 /\ panel[k].mounted
                                 /\ panel[k].inst = calls[i].inst
                              THEN [panel[k] EXCEPT !.loading = FALSE]
                              ELSE panel[k]

\* C30: a failed data request leaves the loaded data of every component and
\* the selected category as they were, returns the loading flag of the
\* component that sent it to false, and changes no other component.
C30_FailureIsolated == [][FailureIsolated]_vars

\* C30 witness: the chart still shows the trend it loaded for A although
\* its request for B, the category of its heading, has failed.
C30_Witness ==
    /\ panel["chart"].mounted
    /\ ~panel["chart"].loading
    /\ panel["chart"].category = "B"
    /\ panel["chart"].data # NoData
    /\ \E i \in InstanceCalls("chart") :
          calls[i].category = "B" /\ calls[i].status = "failed"

====
